---- MODULE Spec2Model ----
(***************************************************************************)
(* Model of the Cursor configurator of Trellis                             *)
(* (src/src/configurators/cursor.ts): the filtered tree copier, the four   *)
(* global installers, the mcp.json registration and the project hooks.json *)
(* writer, driven by configureCursor.                                      *)
(*                                                                         *)
(* Strings that the code inspects character-wise are sequences of tokens:  *)
(*  - a file or directory base name is a sequence such as                  *)
(*    <<"types", ".d", ".ts">>, so that endsWith is a suffix test;         *)
(*  - a host path string is a sequence of name tokens and the separator    *)
(*    tokens "/" and "\\".                                                 *)
(* A file of the trees holds an opaque content ("t1", "t2": template       *)
(* versions, "u": a user's text).  A JSON file holds a layout (fmt) and    *)
(* the value its text denotes; JSON.parse forgets the layout and           *)
(* JSON.stringify(v, null, 2) always produces the layout "pretty2".        *)
(***************************************************************************)
EXTENDS Integers, Sequences, FiniteSets, TLC

VARIABLES
    platform,   \* "posix" or "win32": which node:path the host uses
    home,       \* os.homedir(), a host path string
    tmpl,       \* the template bundle: path -> node
    glob,       \* the tree below ~/.cursor (mcp.json apart): path -> node
    mcpJson,    \* the file ~/.cursor/mcp.json
    projDir,    \* the directory <cwd>/.cursor: "-" or "dir"
    hooksJson,  \* the file <cwd>/.cursor/hooks.json
    pc,         \* position of the running configureCursor / direct call
    pre,        \* history: glob, mcpJson, hooksJson when the run/call began
    reads,      \* history: template paths read by readFileSync in this run
    writes,     \* history: destinations written in this run
    runs,       \* number of install runs started
    envSteps,   \* number of user / template changes made
    clean,      \* completed runs of a series begun on empty roots, -1: none
    call,       \* history: the arguments of a direct copyDirFiltered call
    procs       \* the processes that run registerGlobalMcp concurrently

vars == <<platform, home, tmpl, glob, mcpJson, projDir, hooksJson, pc, pre,
          reads, writes, runs, envSteps, clean, call, procs>>

\* the variables of the direct copy calls and of the concurrent runs
aux == <<call, procs>>

----------------------------------------------------------------------------
(* Bounds of the model                                                     *)

MaxRuns == 2
MaxEnvSteps == 1
MaxNameLen == 3

----------------------------------------------------------------------------
(* Exclusion filter                                                        *)

EXCLUDE_PATTERNS ==
    << <<".d", ".ts">>, <<".d", ".ts", ".map">>, <<".js">>,
       <<".js", ".map">>, <<"__pycache__">> >>

\* String.prototype.endsWith
EndsWith(s, p) ==
    /\ Len(p) <= Len(s)
    /\ SubSeq(s, Len(s) - Len(p) + 1, Len(s)) = p

\* A filter that knows only the exact names of the denylist.
shouldExcludeExactOnly(filename) ==
    \E i \in DOMAIN EXCLUDE_PATTERNS : filename = EXCLUDE_PATTERNS[i]

shouldExclude(filename) ==
    \E i \in DOMAIN EXCLUDE_PATTERNS :
        EndsWith(filename, EXCLUDE_PATTERNS[i]) \/ filename = EXCLUDE_PATTERNS[i]

----------------------------------------------------------------------------
(* Host path strings                                                       *)

Sep(plat) == IF plat = "win32" THEN "\\" ELSE "/"

\* What node:path treats as a separator on the platform.
IsSep(plat, c) == IF plat = "win32" THEN c \in {"/", "\\"} ELSE c = "/"

\* path.normalize, as far as the paths of the model need it: every
\* separator becomes the platform's, runs of separators collapse.
RECURSIVE Normalize(_, _)
Normalize(plat, s) ==
    IF s = <<>> THEN <<>>
    ELSE LET c == Head(s)
             rest == Normalize(plat, Tail(s))
         IN IF IsSep(plat, c)
            THEN IF rest # <<>> /\ Head(rest) = Sep(plat)
                 THEN rest
                 ELSE <<Sep(plat)>> \o rest
            ELSE <<c>> \o rest

RECURSIVE JoinRaw(_, _)
JoinRaw(plat, parts) ==
    IF Len(parts) = 1 THEN parts[1]
    ELSE parts[1] \o <<Sep(plat)>> \o JoinRaw(plat, Tail(parts))

\* path.join(...parts)
PathJoin(plat, parts) == Normalize(plat, JoinRaw(plat, parts))

\* s.replace("\\", "/"): without the g flag only the first match changes.
RECURSIVE ReplaceFirstBackslash(_)
ReplaceFirstBackslash(s) ==
    IF s = <<>> THEN <<>>
    ELSE IF Head(s) = "\\" THEN <<"/">> \o Tail(s)
         ELSE <<Head(s)>> \o ReplaceFirstBackslash(Tail(s))

\* s.replace(/\\/g, "/")
ReplaceBackslashes(s) == [i \in DOMAIN s |-> IF s[i] = "\\" THEN "/" ELSE s[i]]

\* const globalCursorDir = path.join(userHome, ".cursor")
GlobalCursorDir(plat, h) == PathJoin(plat, <<h, <<".cursor">>>>)

----------------------------------------------------------------------------
(* JavaScript / JSON values                                                *)

NoProps == [k \in {} |-> [t |-> "null"]]

JUndefined == [t |-> "undefined"]
JNull == [t |-> "null"]
JBool(b) == [t |-> "bool", b |-> b]
JNum(n) == [t |-> "num", n |-> n]
JStr(s) == [t |-> "str", s |-> s]
\* an array: its elements a, and the named properties p set on the object
JArr(a) == [t |-> "arr", a |-> a, p |-> NoProps]
JObj(o) == [t |-> "obj", o |-> o]

\* ToBoolean
Truthy(v) ==
    CASE v.t = "undefined" -> FALSE
      [] v.t = "null" -> FALSE
      [] v.t = "bool" -> v.b
      [] v.t = "num" -> v.n # 0
      [] v.t = "str" -> v.s # <<>>
      [] OTHER -> TRUE

\* v[k] throws a TypeError
GetThrows(v) == v.t \in {"null", "undefined"}

\* v[k], for a key that is neither an index nor a built-in property
GetProp(v, k) ==
    CASE v.t = "obj" -> IF k \in DOMAIN v.o THEN v.o[k] ELSE JUndefined
      [] v.t = "arr" -> IF k \in DOMAIN v.p THEN v.p[k] ELSE JUndefined
      [] OTHER -> JUndefined

\* v[k] = x throws a TypeError (the module is strict-mode code)
SetThrows(v) == v.t \notin {"obj", "arr"}

Put(f, k, x) == [j \in DOMAIN f \cup {k} |-> IF j = k THEN x ELSE f[j]]

\* v[k] = x
SetProp(v, k, x) ==
    IF v.t = "obj" THEN [v EXCEPT !.o = Put(v.o, k, x)]
    ELSE [v EXCEPT !.p = Put(v.p, k, x)]

\* The value that the text JSON.stringify(v) denotes: an array keeps its
\* elements and loses its named properties.
RECURSIVE Serialized(_)
Serialized(v) ==
    CASE v.t = "arr" -> [t |-> "arr",
                         a |-> [i \in DOMAIN v.a |-> Serialized(v.a[i])],
                         p |-> NoProps]
      [] v.t = "obj" -> [t |-> "obj",
                         o |-> [k \in DOMAIN v.o |-> Serialized(v.o[k])]]
      [] OTHER -> v

\* A JSON file: fmt is "absent" (no file), "garbage" (text that does not
\* parse) or the layout of a text that parses to val.
NoFile == [fmt |-> "absent", val |-> JNull]
Garbage == [fmt |-> "garbage", val |-> JNull]
JsonFile(fmt, v) == [fmt |-> fmt, val |-> v]

\* existsSync
JsonExists(f) == f.fmt # "absent"
\* JSON.parse(readFileSync(f)) throws a SyntaxError
ParseThrows(f) == f.fmt = "garbage"
\* JSON.parse(readFileSync(f))
JSONparse(f) == f.val
\* JSON.stringify(v, null, 2)
JSONstringify(v) == JsonFile("pretty2", Serialized(v))

----------------------------------------------------------------------------
(* Config merger and project activation writer                             *)

TrellisKey == "trellis-context"

\* { command: "python", args: [serverPath.replace(/\\/g, "/")] }
ServerEntry(plat, globalCursorDir) ==
    LET serverPath == PathJoin(plat, <<globalCursorDir, <<"mcp-servers">>,
                                       <<"trellis-context">>, <<"server.py">>>>)
    IN JObj([command |-> JStr(<<"python">>),
             args |-> JArr(<<JStr(ReplaceBackslashes(serverPath))>>)])

DefaultConfig == JObj([mcpServers |-> JObj(NoProps)])

\* The body of the try block throws: the parse, the read of .mcpServers
\* of null, or the assignment of .mcpServers on a primitive.
RegisterTryThrows(file) ==
    \/ ParseThrows(file)
    \/ GetThrows(JSONparse(file))
    \/ /\ ~Truthy(GetProp(JSONparse(file), "mcpServers"))
       /\ SetThrows(JSONparse(file))

\* mcpConfig after the if (existsSync(mcpJsonPath)) { try ... catch ... }
LoadedConfig(file) ==
    IF ~JsonExists(file) THEN DefaultConfig
    ELSE IF RegisterTryThrows(file) THEN DefaultConfig
    ELSE LET parsed == JSONparse(file)
         IN IF ~Truthy(GetProp(parsed, "mcpServers"))
            THEN SetProp(parsed, "mcpServers", JObj(NoProps))
            ELSE parsed

\* A registration that writes the empty default when mcp.json is missing
\* and returns, leaving the entry to a later run.
RegisterGlobalMcpDefaultFirst(plat, globalCursorDir, file) ==
    LET mcpConfig == LoadedConfig(file)
        servers == GetProp(mcpConfig, "mcpServers")
        added == SetProp(mcpConfig, "mcpServers",
                    SetProp(servers, TrellisKey, ServerEntry(plat, globalCursorDir)))
    IN IF ~JsonExists(file)
       THEN [file |-> JSONstringify(DefaultConfig), wrote |-> TRUE, raised |-> FALSE]
       ELSE IF Truthy(GetProp(servers, TrellisKey))
       THEN [file |-> file, wrote |-> FALSE, raised |-> FALSE]
       ELSE IF SetThrows(servers)
       THEN [file |-> file, wrote |-> FALSE, raised |-> TRUE]
       ELSE [file |-> JSONstringify(added), wrote |-> TRUE, raised |-> FALSE]

\* A registration that rebuilds the service mapping instead of amending it.
RegisterGlobalMcpFreshServers(plat, globalCursorDir, file) ==
    LET mcpConfig == LoadedConfig(file)
        servers == GetProp(mcpConfig, "mcpServers")
        added == SetProp(mcpConfig, "mcpServers",
                    SetProp(JObj(NoProps), TrellisKey, ServerEntry(plat, globalCursorDir)))
    IN IF Truthy(GetProp(servers, TrellisKey))
       THEN [file |-> file, wrote |-> FALSE, raised |-> FALSE]
       ELSE IF SetThrows(servers)
       THEN [file |-> file, wrote |-> FALSE, raised |-> TRUE]
       ELSE [file |-> JSONstringify(added), wrote |-> TRUE, raised |-> FALSE]

\* A registration whose catch block rethrows instead of recovering.
RegisterGlobalMcpRethrow(plat, globalCursorDir, file) ==
    LET mcpConfig == LoadedConfig(file)
        servers == GetProp(mcpConfig, "mcpServers")
        added == SetProp(mcpConfig, "mcpServers",
                    SetProp(servers, TrellisKey, ServerEntry(plat, globalCursorDir)))
    IN IF JsonExists(file) /\ RegisterTryThrows(file)
       THEN [file |-> file, wrote |-> FALSE, raised |-> TRUE]
       ELSE IF Truthy(GetProp(servers, TrellisKey))
       THEN [file |-> file, wrote |-> FALSE, raised |-> FALSE]
       ELSE IF SetThrows(servers)
       THEN [file |-> file, wrote |-> FALSE, raised |-> TRUE]
       ELSE [file |-> JSONstringify(added), wrote |-> TRUE, raised |-> FALSE]

\* registerGlobalMcp(globalCursorDir) on the mcp.json `file`: the file
\* afterwards, whether writeFileSync was called, whether a TypeError
\* escaped.  servers aliases mcpConfig.mcpServers, so the assignment to
\* servers[...] shows in mcpConfig.
RegisterGlobalMcp(plat, globalCursorDir, file) ==
    LET mcpConfig == LoadedConfig(file)
        servers == GetProp(mcpConfig, "mcpServers")
        added == SetProp(mcpConfig, "mcpServers",
                    SetProp(servers, TrellisKey, ServerEntry(plat, globalCursorDir)))
    IN IF GetThrows(servers)
       THEN [file |-> file, wrote |-> FALSE, raised |-> TRUE]
       ELSE IF Truthy(GetProp(servers, TrellisKey))
       THEN [file |-> file, wrote |-> FALSE, raised |-> FALSE]
       ELSE IF SetThrows(servers)
       THEN [file |-> file, wrote |-> FALSE, raised |-> TRUE]
       ELSE [file |-> JSONstringify(added), wrote |-> TRUE, raised |-> FALSE]

\* `python "${globalHooksDir}/<script>"`
HookCommand(globalHooksDir, script) ==
    <<"python", " ", "\"">> \o globalHooksDir \o <<"/", script, "\"">>

\* path.join(globalCursorDir, "hooks").replace(/\\/g, "/")
GlobalHooksDir(plat, globalCursorDir) ==
    ReplaceBackslashes(PathJoin(plat, <<globalCursorDir, <<"hooks">>>>))

LoopLimit == 5

\* A document whose startup binding is gated like the completion binding.
HooksConfigBothGated(plat, globalCursorDir) ==
    LET globalHooksDir == GlobalHooksDir(plat, globalCursorDir)
    IN JObj([version |-> JNum(1),
             hooks |-> JObj([
               sessionStart |-> JArr(<<
                 JObj([matcher |-> JStr(<<"check">>),
                       command |-> JStr(HookCommand(globalHooksDir, "session-start.py")),
                       loop_limit |-> JNum(LoopLimit)])>>),
               subagentStop |-> JArr(<<
                 JObj([matcher |-> JStr(<<"check">>),
                       command |-> JStr(HookCommand(globalHooksDir, "ralph-loop.py")),
                       loop_limit |-> JNum(LoopLimit)])>>)])])

HooksConfig(plat, globalCursorDir) ==
    LET globalHooksDir == GlobalHooksDir(plat, globalCursorDir)
    IN JObj([version |-> JNum(1),
             hooks |-> JObj([
               sessionStart |-> JArr(<<
                 JObj([command |-> JStr(HookCommand(globalHooksDir, "session-start.py"))])>>),
               subagentStop |-> JArr(<<
                 JObj([matcher |-> JStr(<<"check">>),
                       command |-> JStr(HookCommand(globalHooksDir, "ralph-loop.py")),
                       loop_limit |-> JNum(LoopLimit)])>>)])])

\* createProjectHooksJson: the hooks.json it leaves
CreateProjectHooksJson(plat, globalCursorDir) ==
    JSONstringify(HooksConfig(plat, globalCursorDir))

----------------------------------------------------------------------------
(* File trees                                                              *)
(* A tree maps every path of the universe to a node: "-" (nothing there), *)
(* "dir", or the content of a file.  A path is a sequence of base names;   *)
(* the template root and the global root use the same relative layout.     *)

Agents == <<"agents">>
Hooks == <<"hooks">>
Commands == <<"commands">>
McpServers == <<"mcp-servers">>
TrellisContext == <<"trellis-context">>
Sub == <<"sub">>
Pycache == <<"__pycache__">>
ImplementMd == <<"implement", ".md">>
SessionStartPy == <<"session-start", ".py">>
StartMd == <<"start", ".md">>
TypesDTs == <<"types", ".d", ".ts">>
ServerPy == <<"server", ".py">>
UtilPy == <<"util", ".py">>
IndexJs == <<"index", ".js">>

McpUnit == <<McpServers, TrellisContext>>

DirPaths ==
    { <<>>, <<Agents>>, <<Hooks>>, <<Hooks, Pycache>>, <<Commands>>,
      <<Commands, Sub>>, <<McpServers>>, McpUnit, McpUnit \o <<Sub>> }

FilePaths ==
    { <<Agents, ImplementMd>>, <<Agents, TypesDTs>>,
      <<Hooks, SessionStartPy>>, <<Hooks, Pycache, SessionStartPy>>,
      <<Commands, StartMd>>, <<Commands, Sub, StartMd>>,
      McpUnit \o <<ServerPy>>, McpUnit \o <<UtilPy>>, McpUnit \o <<IndexJs>>,
      McpUnit \o <<Sub, UtilPy>> }

Paths == DirPaths \cup FilePaths

Parent(p) == SubSeq(p, 1, Len(p) - 1)
BaseName(p) == p[Len(p)]
IsPrefix(p, q) == Len(p) <= Len(q) /\ SubSeq(q, 1, Len(p)) = p

\* existsSync
Exists(fs, p) == fs[p] # "-"
\* statSync(p).isDirectory()
IsDirectory(fs, p) == fs[p] = "dir"
\* statSync(p).isFile()
IsFile(fs, p) == fs[p] \notin {"-", "dir"}
\* readdirSync(p)
ReadDir(fs, p) ==
    { BaseName(q) : q \in { r \in DOMAIN fs : r # <<>> /\ Parent(r) = p /\ Exists(fs, r) } }

EmptyTree == [p \in Paths |-> "-"]

\* ensureDir of utils/file-writer: the directory and its missing parents
EnsureDir(fs, d) == [p \in DOMAIN fs |-> IF IsPrefix(p, d) THEN "dir" ELSE fs[p]]

\* writeFile of utils/file-writer
WriteFile(fs, p, content) == [fs EXCEPT ![p] = content]

\* fs.writeFileSync
WriteFileSync(fs, p, content) == [fs EXCEPT ![p] = content]

----------------------------------------------------------------------------
(* Recursive tree copier.  st = [fs, reads, writes]: the destination tree, *)
(* the source files read and the destination files written so far.         *)

RECURSIVE CopyDirFiltered(_, _, _, _, _)
RECURSIVE CopyEntries(_, _, _, _, _, _)

\* An iteration that forgets the skipExisting test and always copies.
CopyEntryAlwaysCopies(t, src, st, dest, skipExisting, entry) ==
    LET srcPath == src \o <<entry>>
        destPath == dest \o <<entry>>
    IN IF shouldExclude(entry) THEN st
       ELSE IF IsDirectory(t, srcPath)
       THEN CopyDirFiltered(t, srcPath, st, destPath, skipExisting)
       ELSE [fs |-> WriteFile(st.fs, destPath, t[srcPath]),
             reads |-> st.reads \cup {srcPath},
             writes |-> st.writes \cup {destPath}]

\* An iteration that filters files only: the exclusion test comes after
\* the stat, in the file branch.
CopyEntryFiltersFilesOnly(t, src, st, dest, skipExisting, entry) ==
    LET srcPath == src \o <<entry>>
        destPath == dest \o <<entry>>
    IN IF IsDirectory(t, srcPath)
       THEN CopyDirFiltered(t, srcPath, st, destPath, skipExisting)
       ELSE IF shouldExclude(entry) THEN st
       ELSE IF skipExisting /\ Exists(st.fs, destPath) THEN st
       ELSE [fs |-> WriteFile(st.fs, destPath, t[srcPath]),
             reads |-> st.reads \cup {srcPath},
             writes |-> st.writes \cup {destPath}]

\* An iteration that copies the files of the directory and does not
\* descend into its subdirectories.
CopyEntryFlat(t, src, st, dest, skipExisting, entry) ==
    LET srcPath == src \o <<entry>>
        destPath == dest \o <<entry>>
    IN IF shouldExclude(entry) THEN st
       ELSE IF IsDirectory(t, srcPath) THEN st
       ELSE IF skipExisting /\ Exists(st.fs, destPath) THEN st
       ELSE [fs |-> WriteFile(st.fs, destPath, t[srcPath]),
             reads |-> st.reads \cup {srcPath},
             writes |-> st.writes \cup {destPath}]

\* One iteration of the for loop of copyDirFiltered
CopyEntry(t, src, st, dest, skipExisting, entry) ==
    LET srcPath == src \o <<entry>>
        destPath == dest \o <<entry>>
    IN IF shouldExclude(entry) THEN st
       ELSE IF IsDirectory(t, srcPath)
       THEN CopyDirFiltered(t, srcPath, st, destPath, skipExisting)
       ELSE IF skipExisting /\ Exists(st.fs, destPath) THEN st
       ELSE [fs |-> WriteFile(st.fs, destPath, t[srcPath]),
             reads |-> st.reads \cup {srcPath},
             writes |-> st.writes \cup {destPath}]

CopyEntries(t, src, st, dest, skipExisting, entries) ==
    IF entries = {} THEN st
    ELSE LET entry == CHOOSE e \in entries : TRUE
         IN CopyEntries(t, src, CopyEntry(t, src, st, dest, skipExisting, entry),
                        dest, skipExisting, entries \ {entry})

\* A copier that mirrors the source: it first removes from the destination
\* directory every entry the source directory does not have.
CopyDirFilteredMirror(t, src, st, dest, skipExisting) ==
    LET ensured == EnsureDir(st.fs, dest)
        pruned == [p \in DOMAIN ensured |->
                      IF /\ Len(p) > Len(dest)
                         /\ IsPrefix(dest, p)
                         /\ p[Len(dest) + 1] \notin ReadDir(t, src)
                      THEN "-" ELSE ensured[p]]
    IN CopyEntries(t, src, [st EXCEPT !.fs = pruned], dest,
                   skipExisting, ReadDir(t, src))

CopyDirFiltered(t, src, st, dest, skipExisting) ==
    CopyEntries(t, src, [st EXCEPT !.fs = EnsureDir(st.fs, dest)], dest,
                skipExisting, ReadDir(t, src))

----------------------------------------------------------------------------
(* Scoped installers                                                       *)

\* An installer without the existsSync test of its template directory.
InstallGlobalAgentsUnguarded(t, st) ==
    CopyDirFiltered(t, <<Agents>>, st, <<Agents>>, TRUE)

\* An agents installer that copies the hooks directory as well.
InstallGlobalAgentsAndHooks(t, st) ==
    IF ~Exists(t, <<Agents>>) THEN st
    ELSE CopyDirFiltered(t, <<Hooks>>,
                         CopyDirFiltered(t, <<Agents>>, st, <<Agents>>, TRUE),
                         <<Hooks>>, TRUE)

InstallGlobalAgents(t, st) ==
    IF ~Exists(t, <<Agents>>) THEN st
    ELSE CopyDirFiltered(t, <<Agents>>, st, <<Agents>>, TRUE)

InstallGlobalHooks(t, st) ==
    IF ~Exists(t, <<Hooks>>) THEN st
    ELSE CopyDirFiltered(t, <<Hooks>>, st, <<Hooks>>, TRUE)

InstallGlobalCommands(t, st) ==
    IF ~Exists(t, <<Commands>>) THEN st
    ELSE CopyDirFiltered(t, <<Commands>>, st, <<Commands>>, TRUE)

\* An iteration of the bundle copy that descends into subdirectories.
McpCopyEntryRecursive(t, st, entry) ==
    LET srcPath == McpUnit \o <<entry>>
        destPath == McpUnit \o <<entry>>
    IN IF IsFile(t, srcPath)
       THEN [fs |-> WriteFileSync(st.fs, destPath, t[srcPath]),
             reads |-> st.reads \cup {srcPath},
             writes |-> st.writes \cup {destPath}]
       ELSE CopyDirFiltered(t, srcPath, st, destPath, FALSE)

\* One iteration of the for loop of installGlobalMcpServer
McpCopyEntry(t, st, entry) ==
    LET srcPath == McpUnit \o <<entry>>
        destPath == McpUnit \o <<entry>>
    IN IF IsFile(t, srcPath)
       THEN [fs |-> WriteFileSync(st.fs, destPath, t[srcPath]),
             reads |-> st.reads \cup {srcPath},
             writes |-> st.writes \cup {destPath}]
       ELSE st

RECURSIVE McpCopyEntries(_, _, _)
McpCopyEntries(t, st, entries) ==
    IF entries = {} THEN st
    ELSE LET entry == CHOOSE e \in entries : TRUE
         IN McpCopyEntries(t, McpCopyEntry(t, st, entry), entries \ {entry})

\* A bundle installer without the test of server.py at the destination.
InstallGlobalMcpServerUnguarded(t, st) ==
    IF ~Exists(t, McpUnit) THEN st
    ELSE McpCopyEntries(t, [st EXCEPT !.fs = EnsureDir(st.fs, McpUnit)],
                        ReadDir(t, McpUnit))

InstallGlobalMcpServer(t, st) ==
    IF ~Exists(t, McpUnit) THEN st
    ELSE IF Exists(st.fs, McpUnit \o <<ServerPy>>) THEN st
    ELSE McpCopyEntries(t, [st EXCEPT !.fs = EnsureDir(st.fs, McpUnit)],
                        ReadDir(t, McpUnit))

----------------------------------------------------------------------------
(* Hosts, templates and config documents the environment provides          *)

Hosts ==
    { [platform |-> "posix", home |-> <<"/", "home", "/", "me">>],
      [platform |-> "posix", home |-> <<"/", "home", "/", "a", "\\", "b">>],
      [platform |-> "win32", home |-> <<"C:", "\\", "Users", "\\", "me">>],
      [platform |-> "win32", home |-> <<"C:", "/", "Users", "/", "me">>] }

\* the hosts of the complete install runs
InstallHosts ==
    { [platform |-> "posix", home |-> <<"/", "home", "/", "me">>],
      [platform |-> "win32", home |-> <<"C:", "\\", "Users", "\\", "me">>] }

FullTemplate == [p \in Paths |-> IF p \in DirPaths THEN "dir" ELSE "t1"]

OtherKey == "other-svc"

OtherEntry ==
    JObj([command |-> JStr(<<"node">>),
          args |-> JArr(<<JStr(<<"/", "opt", "/", "other.js">>)>>),
          env |-> JObj([TOKEN |-> JStr(<<"x">>)])])

HandEditedEntry ==
    JObj([command |-> JStr(<<"python3">>),
          args |-> JArr(<<JStr(<<"D:", "\\", "my", "\\", "server.py">>)>>)])

\* values a user may have stored under "trellis-context"
TrellisValues ==
    { HandEditedEntry, JNull, JBool(FALSE), JNum(0), JStr(<<>>) }

\* service mappings: "other-svc" present or not, "trellis-context" absent or
\* holding one of TrellisValues
ServerMappings ==
    { NoProps, OtherKey :> OtherEntry }
    \cup { TrellisKey :> v : v \in TrellisValues }
    \cup { (TrellisKey :> v) @@ (OtherKey :> OtherEntry) : v \in TrellisValues }

\* what the field mcpServers may hold
McpServersValues ==
    { JObj(m) : m \in ServerMappings }
    \cup { JNull, JNum(0), JNum(7), JStr(<<"x">>), JBool(TRUE),
           JArr(<<>>), JArr(<<JStr(<<"x">>)>>) }

\* top-level values of a parseable mcp.json
ConfigValues ==
    { JObj(NoProps), JObj([theme |-> JStr(<<"dark">>)]) }
    \cup { JObj([mcpServers |-> m]) : m \in McpServersValues }
    \cup { JObj([mcpServers |-> m, theme |-> JStr(<<"dark">>)]) : m \in McpServersValues }
    \cup { JNull, JNum(5), JStr(<<"x">>), JBool(TRUE), JArr(<<>>), JArr(<<JNum(1)>>) }

Layouts == {"compact", "pretty2"}

ConfigFiles ==
    { NoFile, Garbage } \cup { JsonFile(l, v) : l \in Layouts, v \in ConfigValues }

\* the documents a user writes between install runs
UserConfigs ==
    { Garbage,
      JsonFile("compact", JObj([mcpServers |-> JObj(OtherKey :> OtherEntry),
                                theme |-> JStr(<<"dark">>)])),
      JsonFile("compact", JObj([mcpServers |-> JObj(TrellisKey :> HandEditedEntry)])),
      JsonFile("pretty2", JObj([mcpServers |-> JObj(TrellisKey :> JNull)])),
      JsonFile("pretty2", JObj([mcpServers |-> JNum(7)])) }

\* a hooks.json with a binding the user added
UserHooksJson ==
    JsonFile("compact", JObj([version |-> JNum(1),
                              hooks |-> JObj([stop |-> JArr(<<
                                  JObj([command |-> JStr(<<"echo">>)])>>)])]))

McpJsonPath == << <<"mcp", ".json">> >>
HooksJsonPath == << <<"hooks", ".json">> >>

InGlobal(ps) == { [root |-> "global", path |-> p] : p \in ps }
InProject(ps) == { [root |-> "project", path |-> p] : p \in ps }

Snapshot ==
    [glob |-> glob, mcpJson |-> mcpJson, projDir |-> projDir, hooksJson |-> hooksJson]

\* nothing installed yet: both roots are missing or empty
RootsEmpty ==
    /\ glob \in {EmptyTree, EnsureDir(EmptyTree, <<>>)}
    /\ mcpJson = NoFile
    /\ hooksJson = NoFile

----------------------------------------------------------------------------
(* configureCursor, step by step                                           *)

Stopped == pc \in {"idle", "done", "failed"}

\* no direct copy call made, no concurrent process started
NoCall == [src |-> <<>>, dest |-> <<>>, skipExisting |-> TRUE]
NoProcs == <<>>

Init ==
    /\ \E h \in InstallHosts : platform = h.platform /\ home = h.home
    /\ tmpl = FullTemplate
    /\ glob = EmptyTree
    /\ mcpJson = NoFile
    /\ projDir = "-"
    /\ hooksJson = NoFile
    /\ pc = "idle"
    /\ pre = [glob |-> EmptyTree, mcpJson |-> NoFile, projDir |-> "-",
              hooksJson |-> NoFile]
    /\ reads = {}
    /\ writes = {}
    /\ runs = 0
    /\ envSteps = 0
    /\ clean = 0
    /\ call = NoCall
    /\ procs = NoProcs

\* configureCursor is called: both roots are ensured
Start ==
    /\ Stopped
    /\ runs < MaxRuns
    /\ glob' = EnsureDir(glob, <<>>)
    /\ projDir' = "dir"
    /\ pre' = Snapshot
    /\ reads' = {}
    /\ writes' = {}
    /\ runs' = runs + 1
    /\ clean' = IF clean = 0 THEN (IF RootsEmpty THEN 0 ELSE -1) ELSE clean
    /\ pc' = "agents"
    /\ UNCHANGED <<platform, home, tmpl, mcpJson, hooksJson, envSteps>>
    /\ UNCHANGED aux

\* the effect of one installer on the state of the run
Installed(st, next) ==
    /\ glob' = st.fs
    /\ reads' = reads \cup st.reads
    /\ writes' = writes \cup InGlobal(st.writes)
    /\ pc' = next
    /\ UNCHANGED <<platform, home, tmpl, mcpJson, projDir, hooksJson, pre,
                   runs, envSteps, clean>>
    /\ UNCHANGED aux

RunState == [fs |-> glob, reads |-> {}, writes |-> {}]

StepAgents ==
    /\ pc = "agents"
    /\ Installed(InstallGlobalAgents(tmpl, RunState), "hooks")

StepHooks ==
    /\ pc = "hooks"
    /\ Installed(InstallGlobalHooks(tmpl, RunState), "commands")

\* An orchestrator that goes from the commands to the registration and
\* leaves the service bundle out.
StepCommandsSkipsBundle ==
    /\ pc = "commands"
    /\ Installed(InstallGlobalCommands(tmpl, RunState), "register")

StepCommands ==
    /\ pc = "commands"
    /\ Installed(InstallGlobalCommands(tmpl, RunState), "mcpserver")

StepMcpServer ==
    /\ pc = "mcpserver"
    /\ Installed(InstallGlobalMcpServer(tmpl, RunState), "register")

\* registerGlobalMcp; a TypeError it lets escape ends the run
StepRegister ==
    /\ pc = "register"
    /\ LET r == RegisterGlobalMcp(platform, GlobalCursorDir(platform, home), mcpJson)
       IN /\ mcpJson' = r.file
          /\ writes' = IF r.wrote THEN writes \cup InGlobal({McpJsonPath}) ELSE writes
          /\ pc' = IF r.raised THEN "failed" ELSE "activate"
          /\ clean' = IF r.raised THEN -1 ELSE clean
    /\ UNCHANGED <<platform, home, tmpl, glob, projDir, hooksJson, pre, reads,
                   runs, envSteps>>
    /\ UNCHANGED aux

StepActivate ==
    /\ pc = "activate"
    /\ hooksJson' = CreateProjectHooksJson(platform, GlobalCursorDir(platform, home))
    /\ writes' = writes \cup InProject({HooksJsonPath})
    /\ pc' = "done"
    /\ clean' = IF clean >= 0 THEN clean + 1 ELSE clean
    /\ UNCHANGED <<platform, home, tmpl, glob, mcpJson, projDir, pre, reads,
                   runs, envSteps>>
    /\ UNCHANGED aux

----------------------------------------------------------------------------
(* The environment between runs: the user and the template bundle          *)

\* what every change between runs does to the history variables
EnvStep ==
    /\ Stopped
    /\ envSteps < MaxEnvSteps
    /\ runs < MaxRuns
    /\ envSteps' = envSteps + 1
    /\ pc' = "idle"
    /\ pre' = [glob |-> glob', mcpJson |-> mcpJson', projDir |-> projDir',
               hooksJson |-> hooksJson']
    /\ reads' = {}
    /\ writes' = {}
    /\ clean' = IF clean = 0 THEN 0 ELSE -1
    /\ UNCHANGED <<platform, home, runs>>
    /\ UNCHANGED aux

UserWritesFile ==
    /\ \E p \in FilePaths :
          /\ glob[p] # "u"
          /\ glob' = [EnsureDir(glob, Parent(p)) EXCEPT ![p] = "u"]
    /\ UNCHANGED <<tmpl, mcpJson, projDir, hooksJson>>
    /\ EnvStep

UserDeletesFile ==
    /\ \E p \in FilePaths :
          /\ IsFile(glob, p)
          /\ glob' = [glob EXCEPT ![p] = "-"]
    /\ UNCHANGED <<tmpl, mcpJson, projDir, hooksJson>>
    /\ EnvStep

UserEditsConfig ==
    /\ \E f \in UserConfigs :
          /\ f # mcpJson
          /\ mcpJson' = f
    /\ glob' = EnsureDir(glob, <<>>)
    /\ UNCHANGED <<tmpl, projDir, hooksJson>>
    /\ EnvStep

UserEditsHooksJson ==
    /\ hooksJson # UserHooksJson
    /\ hooksJson' = UserHooksJson
    /\ projDir' = "dir"
    /\ UNCHANGED <<tmpl, glob, mcpJson>>
    /\ EnvStep

TemplateEdits ==
    /\ \E p \in FilePaths :
          /\ IsFile(tmpl, p)
          /\ tmpl' = [tmpl EXCEPT ![p] = IF @ = "t1" THEN "t2" ELSE "t1"]
    /\ UNCHANGED <<glob, mcpJson, projDir, hooksJson>>
    /\ EnvStep

TemplateRemoves ==
    /\ \E p \in Paths \ {<<>>} :
          /\ Exists(tmpl, p)
          /\ tmpl' = [q \in Paths |-> IF IsPrefix(p, q) THEN "-" ELSE tmpl[q]]
    /\ UNCHANGED <<glob, mcpJson, projDir, hooksJson>>
    /\ EnvStep

Next ==
    \/ Start
    \/ StepAgents
    \/ StepHooks
    \/ StepCommands
    \/ StepMcpServer
    \/ StepRegister
    \/ StepActivate
    \/ UserWritesFile
    \/ UserDeletesFile
    \/ UserEditsConfig
    \/ UserEditsHooksJson
    \/ TemplateEdits
    \/ TemplateRemoves

Spec == Init /\ [][Next]_vars

----------------------------------------------------------------------------
(* Direct calls of registerGlobalMcp and createProjectHooksJson, on every  *)
(* host and every mcp.json of the universe, with ~/.cursor and             *)
(* <cwd>/.cursor in place.                                                 *)

InitReg ==
    /\ \E h \in Hosts : platform = h.platform /\ home = h.home
    /\ mcpJson \in ConfigFiles
    /\ hooksJson \in {NoFile, UserHooksJson}
    /\ tmpl = FullTemplate
    /\ glob = EnsureDir(EmptyTree, <<>>)
    /\ projDir = "dir"
    /\ pc = "idle"
    /\ pre = Snapshot
    /\ reads = {}
    /\ writes = {}
    /\ runs = 0
    /\ envSteps = 0
    /\ clean = -1
    /\ call = NoCall
    /\ procs = NoProcs

Returned == pc \in {"idle", "reg-returned", "act-returned"}

CallRegister ==
    /\ Returned
    /\ runs < MaxRuns
    /\ runs' = runs + 1
    /\ pre' = Snapshot
    /\ LET r == RegisterGlobalMcp(platform, GlobalCursorDir(platform, home), mcpJson)
       IN /\ mcpJson' = r.file
          /\ writes' = IF r.wrote THEN InGlobal({McpJsonPath}) ELSE {}
          /\ pc' = IF r.raised THEN "reg-raised" ELSE "reg-returned"
    /\ UNCHANGED <<platform, home, tmpl, glob, projDir, hooksJson, reads,
                   envSteps, clean>>
    /\ UNCHANGED aux

\* A writer that, like the tree installers, leaves an existing hooks.json
\* alone.
CallActivateKeepsExisting ==
    /\ Returned
    /\ runs < MaxRuns
    /\ runs' = runs + 1
    /\ pre' = Snapshot
    /\ hooksJson' = IF JsonExists(hooksJson) THEN hooksJson
                    ELSE CreateProjectHooksJson(platform, GlobalCursorDir(platform, home))
    /\ writes' = IF JsonExists(hooksJson) THEN {} ELSE InProject({HooksJsonPath})
    /\ pc' = "act-returned"
    /\ UNCHANGED <<platform, home, tmpl, glob, mcpJson, projDir, reads,
                   envSteps, clean>>
    /\ UNCHANGED aux

CallActivate ==
    /\ Returned
    /\ runs < MaxRuns
    /\ runs' = runs + 1
    /\ pre' = Snapshot
    /\ hooksJson' = CreateProjectHooksJson(platform, GlobalCursorDir(platform, home))
    /\ writes' = InProject({HooksJsonPath})
    /\ pc' = "act-returned"
    /\ UNCHANGED <<platform, home, tmpl, glob, mcpJson, projDir, reads,
                   envSteps, clean>>
    /\ UNCHANGED aux

NextReg ==
    \/ CallRegister
    \/ CallActivate

SpecReg == InitReg /\ [][NextReg]_vars

----------------------------------------------------------------------------
(* Properties of registerGlobalMcp and of the written documents (SpecReg)  *)

Parseable(f) == f.fmt \notin {"absent", "garbage"}

\* the service mapping of a parseable document whose top level is an
\* object, when the field mcpServers holds a mapping
HasServers(f) ==
    /\ Parseable(f)
    /\ f.val.t = "obj"
    /\ "mcpServers" \in DOMAIN f.val.o
    /\ f.val.o["mcpServers"].t = "obj"

ServersOf(f) == f.val.o["mcpServers"].o

RegisterCalled == pc \in {"reg-returned", "reg-raised"}

\* C1's documents: parseable, an object at the top level, mcpServers (if
\* present) a mapping without the key "trellis-context"
ForeignOnly(f) ==
    /\ Parseable(f)
    /\ f.val.t = "obj"
    /\ "mcpServers" \in DOMAIN f.val.o =>
          /\ f.val.o["mcpServers"].t = "obj"
          /\ TrellisKey \notin DOMAIN ServersOf(f)

\* every top-level key and every service entry of `before` is in `after`
\* with an equal value
KeepsAll(before, after) ==
    /\ HasServers(after)
    /\ \A k \in DOMAIN before.val.o \ {"mcpServers"} :
          k \in DOMAIN after.val.o /\ after.val.o[k] = before.val.o[k]
    /\ "mcpServers" \in DOMAIN before.val.o =>
          \A k \in DOMAIN ServersOf(before) :
              k \in DOMAIN ServersOf(after) /\ ServersOf(after)[k] = ServersOf(before)[k]

\* C1: config merge preserves foreign entries.  After registerGlobalMcp on
\* a parseable object document whose mcpServers (if present) is a mapping
\* without "trellis-context", the call has returned, the document holds
\* "trellis-context" and every service entry and top-level key it held
\* before, with equal values.
C1_MergePreservesForeign ==
    (RegisterCalled /\ ForeignOnly(pre.mcpJson)) =>
        /\ pc = "reg-returned"
        /\ KeepsAll(pre.mcpJson, mcpJson)
        /\ TrellisKey \in DOMAIN ServersOf(mcpJson)

\* C1's case: a document with "other-svc" and a foreign top-level key has
\* been merged
C1_Witness ==
    /\ pc = "reg-returned"
    /\ ForeignOnly(pre.mcpJson)
    /\ HasServers(pre.mcpJson)
    /\ OtherKey \in DOMAIN ServersOf(pre.mcpJson)
    /\ "theme" \in DOMAIN pre.mcpJson.val.o
    /\ writes # {}

\* C3: existing entry is authoritative.  If the service mapping of the
\* document has the key "trellis-context", whatever its value, the call
\* returns without writing and the file is what it was.
C3_ExistingEntryAuthoritative ==
    (RegisterCalled /\ HasServers(pre.mcpJson)
        /\ TrellisKey \in DOMAIN ServersOf(pre.mcpJson)) =>
        /\ pc = "reg-returned"
        /\ writes = {}
        /\ mcpJson = pre.mcpJson

\* C4: corrupt or missing config recovery.  When mcp.json is absent or does
\* not parse, the call returns and leaves a parseable document whose
\* service mapping holds exactly the entry "trellis-context".
C4_CorruptOrMissingRecovery ==
    (RegisterCalled /\ ~Parseable(pre.mcpJson)) =>
        /\ pc = "reg-returned"
        /\ HasServers(mcpJson)
        /\ DOMAIN ServersOf(mcpJson) = {TrellisKey}
        /\ ServersOf(mcpJson)[TrellisKey].t = "obj"

\* C4's case: a file that did not parse has been replaced
C4_Witness ==
    /\ pc = "reg-returned"
    /\ pre.mcpJson = Garbage
    /\ mcpJson.fmt = "pretty2"

NoBackslash(s) == \A i \in DOMAIN s : s[i] # "\\"

\* the strings of the args of the "trellis-context" entry of a document
ServerArgs(f) ==
    LET args == GetProp(GetProp(GetProp(f.val, "mcpServers"), TrellisKey), "args")
    IN IF args.t = "arr" THEN { args.a[i].s : i \in DOMAIN args.a } ELSE {}

\* the text between the double quotes of a hook command
QuotedPath(cmd) ==
    LET q == { i \in DOMAIN cmd : cmd[i] = "\"" }
        first == CHOOSE i \in q : \A j \in q : i <= j
        last == CHOOSE i \in q : \A j \in q : j <= i
    IN SubSeq(cmd, first + 1, last - 1)

\* the script paths of the two bindings of a hooks.json
HookPaths(f) ==
    { QuotedPath(f.val.o["hooks"].o[e].a[1].o["command"].s) :
        e \in {"sessionStart", "subagentStop"} }

\* C8: path normalization.  On every host, the server.py argument of a
\* written mcp.json and the two script paths of a written hooks.json
\* contain no backslash.
C8_WrittenPathsHaveNoBackslash ==
    /\ InGlobal({McpJsonPath}) \subseteq writes =>
          \A a \in ServerArgs(mcpJson) : NoBackslash(a)
    /\ InProject({HooksJsonPath}) \subseteq writes =>
          \A h \in HookPaths(hooksJson) : NoBackslash(h)

\* C8's case: on a host whose home has backslashes both documents have been
\* written with paths under the global root
C8_Witness ==
    /\ ~NoBackslash(home)
    /\ \/ /\ pc = "reg-returned"
          /\ writes # {}
          /\ \E a \in ServerArgs(mcpJson) : Len(a) > Len(home)
       \/ /\ pc = "act-returned"
          /\ \E h \in HookPaths(hooksJson) : Len(h) > Len(home)
    /\ runs = 2
    /\ ServerArgs(mcpJson) # {}
    /\ hooksJson.fmt = "pretty2"

\* C11: the activation document is regenerated, not merged.  Every call of
\* createProjectHooksJson writes hooks.json; the written document has the
\* two generated bindings and no other, whatever the file held before, its
\* script paths lie under the global root, and a call that finds the
\* document of an earlier call writes the same bytes again.
C11_HooksJsonRegenerated ==
    pc = "act-returned" =>
        /\ InProject({HooksJsonPath}) \subseteq writes
        /\ hooksJson.fmt = "pretty2"
        /\ DOMAIN hooksJson.val.o = {"version", "hooks"}
        /\ DOMAIN hooksJson.val.o["hooks"].o = {"sessionStart", "subagentStop"}
        /\ \A h \in HookPaths(hooksJson) :
              IsPrefix(ReplaceBackslashes(GlobalCursorDir(platform, home)), h)
        /\ pre.hooksJson.fmt = "pretty2" => hooksJson = pre.hooksJson

\* C11's case: a hooks.json with a binding the user added has been
\* overwritten
C11_Witness ==
    /\ pc = "act-returned"
    /\ pre.hooksJson = UserHooksJson
    /\ "stop" \in DOMAIN pre.hooksJson.val.o["hooks"].o
    /\ "stop" \notin DOMAIN hooksJson.val.o["hooks"].o

\* C19's documents: parseable, but the top level is null, a number, a
\* string or an array, or the field mcpServers is present and is not a
\* mapping
Misshaped(f) ==
    /\ Parseable(f)
    /\ \/ f.val.t \in {"null", "num", "str", "arr"}
       \/ /\ f.val.t = "obj"
          /\ "mcpServers" \in DOMAIN f.val.o
          /\ f.val.o["mcpServers"].t # "obj"

\* C19: tolerant config shape.  On every such document the call returns,
\* and the file afterwards is a document whose service mapping holds
\* "trellis-context".
C19_TolerantConfigShape ==
    (RegisterCalled /\ Misshaped(pre.mcpJson)) =>
        /\ pc = "reg-returned"
        /\ HasServers(mcpJson)
        /\ TrellisKey \in DOMAIN ServersOf(mcpJson)

\* the one binding of an event of a hooks.json
Binding(f, event) == f.val.o["hooks"].o[event].a[1]

\* the global root as the documents write it, with forward slashes
SlashedGlobalRoot == ReplaceBackslashes(GlobalCursorDir(platform, home))

\* an absolute path in forward slashes: from the root or from a drive
IsAbsolute(path) ==
    \/ path[1] = "/"
    \/ Len(path) >= 2 /\ path[1] = "C:" /\ path[2] = "/"

----------------------------------------------------------------------------
(* Properties of the complete install runs (Spec)                          *)

Running == pc \notin {"idle", "reg-returned", "reg-raised", "act-returned"}

\* the roots of the four installable units and their primary files
TreeUnits == { <<Agents>>, <<Hooks>>, <<Commands>> }
Units == TreeUnits \cup { McpUnit }
Marker(u) ==
    CASE u = <<Agents>> -> <<Agents, ImplementMd>>
      [] u = <<Hooks>> -> <<Hooks, SessionStartPy>>
      [] u = <<Commands>> -> <<Commands, StartMd>>
      [] OTHER -> McpUnit \o <<ServerPy>>

Under(u, p) == IsPrefix(u, p)
TreeFiles == { p \in FilePaths : \E u \in TreeUnits : Under(u, p) }

\* C2: non-destructive skip.  A file that is in the destination of a
\* skipExisting copy when the run begins keeps its content through the
\* run, and the template file of the same path is not read.
C2_NonDestructiveSkip ==
    Running =>
        \A p \in TreeFiles :
            Exists(pre.glob, p) => (glob[p] = pre.glob[p] /\ p \notin reads)

\* C2's case: a destination file with the user's text, a template file of
\* the same path with another content, and the copy has run
C2_Witness ==
    /\ pc = "done"
    /\ \E p \in TreeFiles :
          /\ pre.glob[p] = "u"
          /\ IsFile(tmpl, p)
          /\ ~shouldExclude(BaseName(p))
          /\ \A i \in 1..Len(p) : Exists(tmpl, SubSeq(p, 1, i))
          /\ glob[p] = "u"

\* C5: idempotence of the full install.  After a second complete run of a
\* series begun on empty roots, with no change of the template or by the
\* user since the first run began, the global tree, mcp.json and
\* hooks.json are what they were after the first run.
C5_SecondRunChangesNothing ==
    (pc = "done" /\ clean >= 2) => Snapshot = pre

\* C5's case: two complete runs from empty roots, the first of which
\* installed files, registered the service and wrote hooks.json
C5_Witness ==
    /\ pc = "done"
    /\ clean = 2
    /\ \E p \in FilePaths : IsFile(glob, p)
    /\ HasServers(mcpJson)
    /\ hooksJson.fmt = "pretty2"

\* C6: exclusion enforcement for files.  No run creates a destination file
\* whose base name ends in a denylisted suffix, wherever the template file
\* lies, the root of the service bundle included.
C6_NoExcludedFileCreated ==
    Running =>
        \A p \in FilePaths :
            (shouldExclude(BaseName(p)) /\ ~Exists(pre.glob, p)) => ~Exists(glob, p)

HasPycache(p) == \E i \in DOMAIN p : p[i] = Pycache

\* C7: directory pruning.  Neither a directory named __pycache__ nor
\* anything below it is created in the destination by a run.
C7_PycachePruned ==
    Running =>
        \A p \in Paths :
            (HasPycache(p) /\ ~Exists(pre.glob, p)) => ~Exists(glob, p)

\* C7's case: the template holds hooks/__pycache__/session-start.py, the
\* hooks unit has been copied, and the destination has no __pycache__
C7_Witness ==
    /\ pc = "done"
    /\ IsFile(tmpl, <<Hooks, Pycache, SessionStartPy>>)
    /\ <<Hooks, SessionStartPy>> \in reads
    /\ IsFile(glob, <<Hooks, SessionStartPy>>)
    /\ ~Exists(glob, <<Hooks, Pycache>>)

\* C9: no clobbering on re-run.  No run changes the content of a file that
\* was at its destination path under a global install directory when the
\* run began.
C9_NoExistingFileChanged ==
    Running =>
        \A p \in FilePaths : IsFile(pre.glob, p) => glob[p] = pre.glob[p]

\* C10: first-install-only.  For each of the four units, if its marker
\* file is at the destination when the run begins, the run writes nothing
\* below the unit's destination and creates nothing there.
C10_InstalledUnitUntouched ==
    Running =>
        \A u \in Units :
            Exists(pre.glob, Marker(u)) =>
                /\ \A w \in writes : ~(w.root = "global" /\ Under(u, w.path))
                /\ \A p \in Paths : Under(u, p) => glob[p] = pre.glob[p]

\* the directories an installer of unit u may create
UnitDirs(u) == IF u = McpUnit THEN {<<McpServers>>, McpUnit} ELSE {u}

\* C12: not-applicable units are skipped silently.  While and after a run,
\* below a unit whose template directory does not exist nothing is read,
\* written or created, the unit's directory included; a run ends in
\* failure only by the TypeError of the registration; and a run that ends
\* has installed the primary file of every unit the template holds, left
\* an mcp.json and written hooks.json.
C12_AbsentUnitSkipped ==
    /\ Running =>
          \A u \in Units :
              ~Exists(tmpl, u) =>
                  /\ \A p \in Paths : Under(u, p) => glob[p] = pre.glob[p]
                  /\ \A d \in UnitDirs(u) : glob[d] = pre.glob[d]
                  /\ \A w \in writes : ~(w.root = "global" /\ Under(u, w.path))
                  /\ \A r \in reads : ~Under(u, r)
    /\ pc = "failed" =>
          RegisterGlobalMcp(platform, GlobalCursorDir(platform, home), mcpJson).raised
    /\ pc = "done" =>
          /\ \A u \in Units : IsFile(tmpl, Marker(u)) => Exists(glob, Marker(u))
          /\ JsonExists(mcpJson)
          /\ InProject({HooksJsonPath}) \subseteq writes
          /\ hooksJson.fmt = "pretty2"

\* C12's case: the template has no agents directory, the destination had
\* none either, and the run went on to install hooks, register the
\* service and write hooks.json
C12_Witness ==
    /\ pc = "done"
    /\ ~Exists(tmpl, <<Agents>>)
    /\ ~Exists(pre.glob, <<Agents>>)
    /\ ~Exists(glob, <<Agents>>)
    /\ <<Hooks, SessionStartPy>> \in reads
    /\ InGlobal({McpJsonPath}) \subseteq writes
    /\ InProject({HooksJsonPath}) \subseteq writes

\* the position of a step in configureCursor
Rank(step) ==
    CASE step = "agents" -> 1
      [] step = "hooks" -> 2
      [] step = "commands" -> 3
      [] step = "mcpserver" -> 4
      [] step = "register" -> 5
      [] step = "activate" -> 6
      [] OTHER -> 7

\* the step that writes a file
WriterRank(w) ==
    IF w.root = "project" THEN 6
    ELSE IF w.path = McpJsonPath THEN 5
    ELSE IF Under(<<McpServers>>, w.path) THEN 4
    ELSE IF Under(<<Commands>>, w.path) THEN 3
    ELSE IF Under(<<Hooks>>, w.path) THEN 2
    ELSE 1

\* one step of a run: what it may write and where the run goes
InOrder ==
    /\ (Stopped /\ pc' = "agents") =>
          (writes' = {} /\ glob'[<<>>] = "dir" /\ projDir' = "dir")
    /\ Rank(pc) < 7 =>
          /\ writes \subseteq writes'
          /\ \A w \in writes' \ writes : WriterRank(w) = Rank(pc)
          /\ pc' # pc => IF pc' = "failed" THEN pc = "register"
                          ELSE Rank(pc') = Rank(pc) + 1

\* C15: fixed step order.  A run begins by ensuring both roots and has
\* written nothing then; its steps follow in the order agents, hooks,
\* commands, service bundle, registration, activation, each writing only
\* its own files (a run ends early only when the registration raises); so
\* a file of a step is on the list of written files only when every
\* earlier step has finished.
C15_FixedStepOrder ==
    /\ [](Running => (glob[<<>>] = "dir" /\ projDir = "dir"
                       /\ \A w \in writes : WriterRank(w) < Rank(pc)))
    /\ [][InOrder]_vars

\* C15's case: a run in which each of the six steps has written
C15_Witness ==
    /\ pc = "done"
    /\ \A k \in 1..6 : \E w \in writes : WriterRank(w) = k

----------------------------------------------------------------------------
(* Direct calls of copyDirFiltered(src, dest, skipExisting), with either   *)
(* value of skipExisting, from a directory of a template bundle to the     *)
(* directory of the same relative path below ~/.cursor.                    *)

RemoveAt(t, p) == [q \in Paths |-> IF IsPrefix(p, q) THEN "-" ELSE t[q]]

\* template bundles: the full one, with one subtree missing (which may
\* leave a directory empty), or with one file in another version
Templates ==
    {FullTemplate}
    \cup { RemoveAt(FullTemplate, p) : p \in Paths \ {<<>>} }
    \cup { [FullTemplate EXCEPT ![p] = "t2"] : p \in FilePaths }

\* destination trees: nothing there, or one file of the user
DestTrees ==
    {EmptyTree}
    \cup { [EnsureDir(EmptyTree, Parent(p)) EXCEPT ![p] = "u"] : p \in FilePaths }

InitCopy ==
    /\ platform = "posix"
    /\ home = <<"/", "home", "/", "me">>
    /\ tmpl \in Templates
    /\ glob \in DestTrees
    /\ mcpJson = NoFile
    /\ projDir = "-"
    /\ hooksJson = NoFile
    /\ pc = "idle"
    /\ pre = Snapshot
    /\ reads = {}
    /\ writes = {}
    /\ runs = 0
    /\ envSteps = 0
    /\ clean = -1
    /\ call = NoCall
    /\ procs = NoProcs

\* copyDirFiltered(src, dest, skipExisting) returns; readdirSync raises
\* when src is not a directory
CallCopy ==
    /\ pc = "idle"
    /\ \E src \in DirPaths, skipExisting \in BOOLEAN :
          /\ IsDirectory(tmpl, src)
          /\ LET st == CopyDirFiltered(tmpl, src, RunState, src, skipExisting)
             IN /\ glob' = st.fs
                /\ reads' = st.reads
                /\ writes' = InGlobal(st.writes)
          /\ call' = [src |-> src, dest |-> src, skipExisting |-> skipExisting]
    /\ pre' = Snapshot
    /\ pc' = "copied"
    /\ UNCHANGED <<platform, home, tmpl, mcpJson, projDir, hooksJson, runs,
                   envSteps, clean, procs>>

NextCopy ==
    \/ CallCopy

SpecCopy == InitCopy /\ [][NextCopy]_vars

\* p lies in the source tree of the call, below src through names that
\* are not excluded
Reached(p) ==
    /\ IsPrefix(call.src, p)
    /\ p # call.src
    /\ \A i \in (Len(call.src) + 1)..Len(p) :
          /\ ~shouldExclude(p[i])
          /\ Exists(tmpl, SubSeq(p, 1, i))

\* C20: copy completeness.  After copyDirFiltered(src, dest,
\* skipExisting) has returned, dest is a directory, each directory of the
\* source reached through names that are not excluded is a directory of
\* the destination, empty or not, each file in such a directory is a file
\* of the destination, and it has the content of the source when
\* skipExisting is false or the destination file was not there before.
C20_CopyComplete ==
    pc = "copied" =>
        /\ IsDirectory(glob, call.dest)
        /\ \A p \in Paths :
              Reached(p) =>
                  IF IsDirectory(tmpl, p) THEN IsDirectory(glob, p)
                  ELSE /\ IsFile(glob, p)
                       /\ (~call.skipExisting \/ ~Exists(pre.glob, p)) =>
                              glob[p] = tmpl[p]

\* C20's case: a call with skipExisting false from a source that has an
\* empty subdirectory, over a destination with a file of the user
C20_Witness ==
    /\ pc = "copied"
    /\ ~call.skipExisting
    /\ \E d \in DirPaths :
          Reached(d) /\ IsDirectory(tmpl, d) /\ ReadDir(tmpl, d) = {}
              /\ ~Exists(pre.glob, d) /\ IsDirectory(glob, d)
    /\ \E p \in FilePaths :
          Reached(p) /\ pre.glob[p] = "u" /\ glob[p] = tmpl[p]

----------------------------------------------------------------------------
(* Install runs that an I/O error may abort.  A call of the file system    *)
(* raises between two completed writes: the step has then done a part of   *)
(* its work, configureCursor has no try/catch, and the caller starts the   *)
(* install again.  The last run the bound allows meets no error.  A write  *)
(* that raises leaves its file as it was.                                  *)

\* destination trees at the first run
FailTrees ==
    { EmptyTree,
      [EnsureDir(EmptyTree, <<Agents>>) EXCEPT ![<<Agents, ImplementMd>>] = "u"],
      [EnsureDir(EmptyTree, McpUnit) EXCEPT ![McpUnit \o <<UtilPy>>] = "u"] }

\* mcp.json at the first run
FailConfigs ==
    { NoFile,
      JsonFile("compact", JObj([mcpServers |-> JObj(OtherKey :> OtherEntry),
                                theme |-> JStr(<<"dark">>)])) }

InitFail ==
    /\ platform = "posix"
    /\ home = <<"/", "home", "/", "me">>
    /\ tmpl = FullTemplate
    /\ glob \in FailTrees
    /\ mcpJson \in FailConfigs
    /\ projDir = "-"
    /\ hooksJson \in {NoFile, UserHooksJson}
    /\ pc = "idle"
    /\ pre = Snapshot
    /\ reads = {}
    /\ writes = {}
    /\ runs = 0
    /\ envSteps = 0
    /\ clean = -1
    /\ call = NoCall
    /\ procs = NoProcs

\* where a run was when the error escaped from configureCursor
RaisedPcs ==
    { "start-raised", "agents-raised", "hooks-raised", "commands-raised",
      "mcpserver-raised", "register-raised", "activate-raised" }

\* this run may meet an error: a later run is left to recover
MayFail == runs < MaxRuns

\* the part of the template below unit u that an installer has gone
\* through when the error comes: a part of the unit closed under parents
\* (readdirSync fixes no order of the entries), never all of it
UnitPaths(t, u) == { p \in Paths : Under(u, p) /\ Exists(t, p) }

Prefixes(t, u) ==
    { S \in SUBSET UnitPaths(t, u) :
        /\ S # UnitPaths(t, u)
        /\ \A p \in S : p = u \/ Parent(p) \in S }

RestrictTo(t, u, S) ==
    [p \in Paths |-> IF Under(u, p) /\ p \notin S THEN "-" ELSE t[p]]

\* the first run
FirstStart ==
    /\ pc = "idle"
    /\ Start

\* ensureDir of the project root raises, after the global root was made
FailStart ==
    /\ pc = "idle"
    /\ runs + 1 < MaxRuns
    /\ glob' = EnsureDir(glob, <<>>)
    /\ pre' = Snapshot
    /\ reads' = {}
    /\ writes' = {}
    /\ runs' = runs + 1
    /\ pc' = "start-raised"
    /\ UNCHANGED <<platform, home, tmpl, mcpJson, projDir, hooksJson, envSteps,
                   clean>>
    /\ UNCHANGED aux

\* an installer raises after a part of its work; the error leaves
\* configureCursor
Aborted(st, raised) ==
    /\ glob' = st.fs
    /\ reads' = reads \cup st.reads
    /\ writes' = writes \cup InGlobal(st.writes)
    /\ pc' = raised
    /\ UNCHANGED <<platform, home, tmpl, mcpJson, projDir, hooksJson, pre,
                   runs, envSteps, clean>>
    /\ UNCHANGED aux

\* An orchestrator that catches the error of the service-bundle installer
\* and goes on with the registration.
FailMcpServerSwallowed ==
    /\ pc = "mcpserver"
    /\ MayFail
    /\ \E S \in Prefixes(tmpl, McpUnit) :
          Aborted(InstallGlobalMcpServer(RestrictTo(tmpl, McpUnit, S), RunState),
                  "register")

FailAgents ==
    /\ pc = "agents"
    /\ MayFail
    /\ \E S \in Prefixes(tmpl, <<Agents>>) :
          Aborted(InstallGlobalAgents(RestrictTo(tmpl, <<Agents>>, S), RunState),
                  "agents-raised")

FailHooks ==
    /\ pc = "hooks"
    /\ MayFail
    /\ \E S \in Prefixes(tmpl, <<Hooks>>) :
          Aborted(InstallGlobalHooks(RestrictTo(tmpl, <<Hooks>>, S), RunState),
                  "hooks-raised")

FailCommands ==
    /\ pc = "commands"
    /\ MayFail
    /\ \E S \in Prefixes(tmpl, <<Commands>>) :
          Aborted(InstallGlobalCommands(RestrictTo(tmpl, <<Commands>>, S), RunState),
                  "commands-raised")

FailMcpServer ==
    /\ pc = "mcpserver"
    /\ MayFail
    /\ \E S \in Prefixes(tmpl, McpUnit) :
          Aborted(InstallGlobalMcpServer(RestrictTo(tmpl, McpUnit, S), RunState),
                  "mcpserver-raised")

\* the writeFileSync of registerGlobalMcp raises
FailRegister ==
    /\ pc = "register"
    /\ MayFail
    /\ RegisterGlobalMcp(platform, GlobalCursorDir(platform, home), mcpJson).wrote
    /\ pc' = "register-raised"
    /\ UNCHANGED <<platform, home, tmpl, glob, mcpJson, projDir, hooksJson, pre,
                   reads, writes, runs, envSteps, clean>>
    /\ UNCHANGED aux

\* the writeFileSync of createProjectHooksJson raises
FailActivate ==
    /\ pc = "activate"
    /\ MayFail
    /\ pc' = "activate-raised"
    /\ UNCHANGED <<platform, home, tmpl, glob, mcpJson, projDir, hooksJson, pre,
                   reads, writes, runs, envSteps, clean>>
    /\ UNCHANGED aux

\* the caller runs the install again; pre stays the state before the
\* first run
Retry ==
    /\ pc \in RaisedPcs
    /\ runs < MaxRuns
    /\ glob' = EnsureDir(glob, <<>>)
    /\ projDir' = "dir"
    /\ reads' = {}
    /\ writes' = {}
    /\ runs' = runs + 1
    /\ pc' = "agents"
    /\ UNCHANGED <<platform, home, tmpl, mcpJson, hooksJson, pre, envSteps, clean>>
    /\ UNCHANGED aux

NextFail ==
    \/ FirstStart
    \/ FailStart
    \/ StepAgents
    \/ FailAgents
    \/ StepHooks
    \/ FailHooks
    \/ StepCommands
    \/ FailCommands
    \/ StepMcpServer
    \/ FailMcpServer
    \/ StepRegister
    \/ FailRegister
    \/ StepActivate
    \/ FailActivate
    \/ Retry

SpecFail == InitFail /\ [][NextFail]_vars

\* configureCursor from the state s when nothing raises: the files it
\* leaves
FullRun(s) ==
    LET st0 == [fs |-> EnsureDir(s.glob, <<>>), reads |-> {}, writes |-> {}]
        st4 == InstallGlobalMcpServer(tmpl,
                   InstallGlobalCommands(tmpl,
                       InstallGlobalHooks(tmpl, InstallGlobalAgents(tmpl, st0))))
        r == RegisterGlobalMcp(platform, GlobalCursorDir(platform, home), s.mcpJson)
    IN [glob |-> st4.fs,
        mcpJson |-> r.file,
        projDir |-> "dir",
        hooksJson |-> CreateProjectHooksJson(platform, GlobalCursorDir(platform, home))]

\* C13: safe resumption after failure.  When a run that follows an
\* aborted one ends, the global tree, mcp.json and hooks.json are those
\* that one run without error leaves from the state before the first run.
C13_ResumedRunEqualsFullRun ==
    (pc = "done" /\ runs >= 2) => Snapshot = FullRun(pre)

\* the step a raised run was in
RaisedRank(p) ==
    CASE p = "start-raised" -> 0
      [] p = "agents-raised" -> 1
      [] p = "hooks-raised" -> 2
      [] p = "commands-raised" -> 3
      [] p = "mcpserver-raised" -> 4
      [] p = "register-raised" -> 5
      [] OTHER -> 6

\* after an error the next thing to happen is a new run
AfterRaise ==
    pc \in RaisedPcs =>
        (pc' = "agents" /\ mcpJson' = mcpJson /\ hooksJson' = hooksJson)

----------------------------------------------------------------------------
(* Two install runs, started from two projects, that reach                 *)
(* registerGlobalMcp at the same time and share ~/.cursor/mcp.json, and    *)
(* another program that adds an entry of its own to that file.  Each call  *)
(* reads the file (existsSync, readFileSync), decides, and writes with     *)
(* fs.writeFileSync: the file is opened with truncation, which leaves it   *)
(* empty, and then filled.  There is no lock and no temporary file.        *)

Installs == {"project-a", "project-b"}

\* the entry of the other program
LateKey == "late-svc"
LateEntry == JObj([command |-> JStr(<<"deno">>)])

\* mcp.json before both runs
RaceConfigs ==
    { NoFile,
      Garbage,
      JsonFile("compact", JObj([mcpServers |-> JObj(NoProps)])),
      JsonFile("compact", JObj([mcpServers |-> JObj(OtherKey :> OtherEntry),
                                theme |-> JStr(<<"dark">>)])),
      JsonFile("pretty2", JObj([mcpServers |->
          JObj((TrellisKey :> HandEditedEntry) @@ (OtherKey :> OtherEntry))])) }

\* a file opened for writing and not yet filled: a text that does not
\* parse
Truncated == Garbage

InitRace ==
    /\ \E h \in InstallHosts : platform = h.platform /\ home = h.home
    /\ tmpl = FullTemplate
    /\ glob = EnsureDir(EmptyTree, <<>>)
    /\ mcpJson \in RaceConfigs
    /\ projDir = "dir"
    /\ hooksJson = NoFile
    /\ pc = "racing"
    /\ pre = Snapshot
    /\ reads = {}
    /\ writes = {}
    /\ runs = 0
    /\ envSteps = 0
    /\ clean = -1
    /\ call = NoCall
    /\ procs = [pc |-> [p \in Installs |-> "start"],
                seen |-> [p \in Installs |-> NoFile],
                missed |-> [p \in Installs |-> FALSE],
                other |-> "start"]

RaceUnchanged ==
    UNCHANGED <<platform, home, tmpl, glob, projDir, hooksJson, pc, pre, reads,
                writes, runs, envSteps, clean, call>>

\* existsSync and readFileSync of mcp.json
RaceRead(p) ==
    /\ procs.pc[p] = "start"
    /\ procs' = [procs EXCEPT !.pc[p] = "loaded", !.seen[p] = mcpJson]
    /\ UNCHANGED mcpJson
    /\ RaceUnchanged

\* A registration that reads the file again when it opens it for writing.
RaceOpenRereads(p) ==
    /\ procs.pc[p] = "loaded"
    /\ LET r == RegisterGlobalMcp(platform, GlobalCursorDir(platform, home), mcpJson)
       IN IF r.raised
          THEN procs' = [procs EXCEPT !.pc[p] = "raised"] /\ UNCHANGED mcpJson
          ELSE IF ~r.wrote
          THEN procs' = [procs EXCEPT !.pc[p] = "done"] /\ UNCHANGED mcpJson
          ELSE /\ procs' = [procs EXCEPT !.pc[p] = "writing", !.seen[p] = mcpJson]
               /\ mcpJson' = Truncated
    /\ RaceUnchanged

\* the parse, the test of the entry and, when the entry is to be added,
\* the open of writeFileSync, which truncates the file
RaceOpen(p) ==
    /\ procs.pc[p] = "loaded"
    /\ LET r == RegisterGlobalMcp(platform, GlobalCursorDir(platform, home),
                                  procs.seen[p])
       IN IF r.raised
          THEN procs' = [procs EXCEPT !.pc[p] = "raised"] /\ UNCHANGED mcpJson
          ELSE IF ~r.wrote
          THEN procs' = [procs EXCEPT !.pc[p] = "done"] /\ UNCHANGED mcpJson
          ELSE /\ procs' = [procs EXCEPT !.pc[p] = "writing"]
               /\ mcpJson' = Truncated
    /\ RaceUnchanged

\* writeFileSync fills the file with the document made from what was read
RaceWrite(p) ==
    /\ procs.pc[p] = "writing"
    /\ mcpJson' = RegisterGlobalMcp(platform, GlobalCursorDir(platform, home),
                                    procs.seen[p]).file
    /\ procs' = [procs EXCEPT !.pc[p] = "done"]
    /\ RaceUnchanged

\* the other program adds its entry to the document in one step; each
\* registration that has read and not yet written has missed it
OtherInserts ==
    /\ procs.other = "start"
    /\ HasServers(mcpJson)
    /\ LateKey \notin DOMAIN ServersOf(mcpJson)
    /\ mcpJson' = JsonFile(mcpJson.fmt,
                      SetProp(mcpJson.val, "mcpServers",
                          SetProp(GetProp(mcpJson.val, "mcpServers"), LateKey, LateEntry)))
    /\ procs' = [procs EXCEPT
                    !.other = "inserted",
                    !.missed = [p \in Installs |->
                                   procs.pc[p] \in {"loaded", "writing"}]]
    /\ RaceUnchanged

NextRace ==
    \/ \E p \in Installs : RaceRead(p)
    \/ \E p \in Installs : RaceOpen(p)
    \/ \E p \in Installs : RaceWrite(p)
    \/ OtherInserts

SpecRace == InitRace /\ [][NextRace]_vars

\* both registrations have returned or raised
AllReturned == \A p \in Installs : procs.pc[p] \in {"done", "raised"}

\* C16: concurrent installs do not corrupt the config document.  When
\* both registrations are over, mcp.json parses, its service mapping holds
\* "trellis-context", and every service entry and top-level key of the
\* document before both runs is there with an equal value.
C16_ConcurrentInstallsKeepConfig ==
    AllReturned =>
        /\ HasServers(mcpJson)
        /\ TrellisKey \in DOMAIN ServersOf(mcpJson)
        /\ (Parseable(pre.mcpJson) /\ pre.mcpJson.val.t = "obj") =>
              KeepsAll(pre.mcpJson, mcpJson)

\* C17: atomic rewrite of the config document.  At every moment the file
\* is absent or a complete document: a file that does not parse is only
\* ever the one that was there before both runs.
C17_AtomicRewrite ==
    (JsonExists(mcpJson) /\ ~Parseable(mcpJson)) => mcpJson = pre.mcpJson

\* the registration p fills the file
Writes(p) == procs.pc[p] = "writing" /\ procs'.pc[p] = "done"

LosesLateEntry ==
    \A p \in Installs :
        (Writes(p) /\ procs.missed[p]) =>
            /\ mcpJson' = RegisterGlobalMcp(platform, GlobalCursorDir(platform, home),
                                            procs.seen[p]).file
            /\ HasServers(mcpJson')
            /\ LateKey \notin DOMAIN ServersOf(mcpJson')

\* C18: lost update in the unlocked read-modify-write.  When another
\* program has added its entry after a registration read mcp.json and
\* before that registration writes, the write puts the document made from
\* what was read, which has not the entry of the other program: the file
\* is not read again and no lock is held.
C18_LostUpdate == [][LosesLateEntry]_vars

\* C18's case: the other program has added its entry between the read and
\* the write of a registration, both registrations are over and the entry
\* is not in the document
C18_Witness ==
    /\ AllReturned
    /\ procs.other = "inserted"
    /\ \E p \in Installs : procs.missed[p] /\ procs.pc[p] = "done"
    /\ HasServers(mcpJson)
    /\ TrellisKey \in DOMAIN ServersOf(mcpJson)
    /\ LateKey \notin DOMAIN ServersOf(mcpJson)

----------------------------------------------------------------------------
(* Further properties of the complete install runs (Spec)                  *)

\* the service-bundle installer of this run has returned
BundleStepDone == Running /\ Rank(pc) > 4

\* the regular files at the root of the bundle template
BundleRootFiles == { p \in FilePaths : Parent(p) = McpUnit /\ IsFile(tmpl, p) }

\* C21: service-bundle guard.  With server.py at the destination when the
\* run begins, the bundle installer writes nothing and changes nothing
\* below its destination, whatever else is missing there; without it,
\* every regular file at the root of the template unit is written to the
\* destination with the template's content, over a file of the same name.
C21_ServiceBundleGuard ==
    BundleStepDone =>
        IF Exists(pre.glob, McpUnit \o <<ServerPy>>)
        THEN /\ \A w \in writes : ~(w.root = "global" /\ Under(<<McpServers>>, w.path))
             /\ \A p \in Paths : Under(<<McpServers>>, p) => glob[p] = pre.glob[p]
        ELSE Exists(tmpl, McpUnit) =>
                \A f \in BundleRootFiles :
                    /\ InGlobal({f}) \subseteq writes
                    /\ glob[f] = tmpl[f]

\* C21's case: server.py is at the destination, util.py is in the template
\* and not at the destination, and the run has left it missing
C21_Witness ==
    /\ pc = "done"
    /\ IsFile(pre.glob, McpUnit \o <<ServerPy>>)
    /\ IsFile(tmpl, McpUnit \o <<UtilPy>>)
    /\ ~Exists(pre.glob, McpUnit \o <<UtilPy>>)
    /\ ~Exists(glob, McpUnit \o <<UtilPy>>)

\* below a subdirectory of the root of the bundle
BelowBundleSubdir(p) == Under(McpUnit, p) /\ Len(p) > Len(McpUnit) + 1

\* C22: flat copy of the service bundle.  A run creates no directory at
\* the root of the bundle destination and nothing below one: what the
\* bundle installer writes are files directly at the root of the unit.
C22_BundleCopyIsFlat ==
    Running =>
        /\ \A p \in Paths :
              (Under(McpUnit, p) /\ p # McpUnit /\ ~Exists(pre.glob, p)
                  /\ (IsDirectory(tmpl, p) \/ BelowBundleSubdir(p))) => ~Exists(glob, p)
        /\ \A w \in writes :
              (w.root = "global" /\ Under(McpUnit, w.path)) =>
                  (Parent(w.path) = McpUnit /\ IsFile(tmpl, w.path))

\* C22's case: the template bundle has sub/util.py, the installer has
\* copied server.py, and the destination has no sub
C22_Witness ==
    /\ pc = "done"
    /\ IsFile(tmpl, McpUnit \o <<Sub, UtilPy>>)
    /\ InGlobal({McpUnit \o <<ServerPy>>}) \subseteq writes
    /\ ~Exists(glob, McpUnit \o <<Sub>>)
    /\ ~Exists(glob, McpUnit \o <<Sub, UtilPy>>)

----------------------------------------------------------------------------
(* copyDirFiltered on a source directory with one entry, a file or a       *)
(* directory with a file in it, whose name is drawn from the names of up   *)
(* to MaxNameLen pieces.                                                   *)

NameTokens == {"lib", ".d", ".ts", ".js", ".map", "__pycache__", ".py"}

RECURSIVE NamesOfLen(_)
NamesOfLen(n) ==
    IF n = 0 THEN {<<>>}
    ELSE { Append(s, t) : s \in NamesOfLen(n - 1), t \in NameTokens }

Names == UNION { NamesOfLen(n) : n \in 1..MaxNameLen }

\* a source directory with the one entry `name`
NameTree(name, kind) ==
    [p \in {<<>>, <<name>>, <<name, StartMd>>} |->
        IF p = <<>> THEN "dir"
        ELSE IF p = <<name>> THEN (IF kind = "dir" THEN "dir" ELSE "t1")
        ELSE (IF kind = "dir" THEN "t1" ELSE "-")]

InitExclude ==
    /\ platform = "posix"
    /\ home = <<"/", "home", "/", "me">>
    /\ \E name \in Names, kind \in {"file", "dir"} :
          /\ tmpl = NameTree(name, kind)
          /\ glob = [p \in DOMAIN tmpl |-> "-"]
    /\ mcpJson = NoFile
    /\ projDir = "-"
    /\ hooksJson = NoFile
    /\ pc = "idle"
    /\ pre = Snapshot
    /\ reads = {}
    /\ writes = {}
    /\ runs = 0
    /\ envSteps = 0
    /\ clean = -1
    /\ call = NoCall
    /\ procs = NoProcs

\* the name of the entry of the source directory
EntryName == CHOOSE name \in Names : <<name>> \in DOMAIN tmpl

\* copyDirFiltered(src, dest, skipExisting) on that directory; pc keeps
\* what shouldExclude said of the entry
CallCopyNamed ==
    /\ pc = "idle"
    /\ \E skipExisting \in BOOLEAN :
          /\ LET st == CopyDirFiltered(tmpl, <<>>, RunState, <<>>, skipExisting)
             IN /\ glob' = st.fs
                /\ reads' = st.reads
                /\ writes' = InGlobal(st.writes)
          /\ call' = [src |-> <<>>, dest |-> <<>>, skipExisting |-> skipExisting]
    /\ pre' = Snapshot
    /\ pc' = IF shouldExclude(EntryName) THEN "excluded" ELSE "kept"
    /\ UNCHANGED <<platform, home, tmpl, mcpJson, projDir, hooksJson, runs,
                   envSteps, clean, procs>>

NextExclude ==
    \/ CallCopyNamed

SpecExclude == InitExclude /\ [][NextExclude]_vars

\* the name ends with one of the five suffixes
EndsInDenylisted(name) ==
    \E k \in 1..Len(name) :
        SubSeq(name, k, Len(name)) \in
            { <<".d", ".ts">>, <<".d", ".ts", ".map">>, <<".js">>,
              <<".js", ".map">>, <<"__pycache__">> }

\* C24: exclusion predicate.  shouldExclude is true of a name exactly when
\* the name ends with .d.ts, .d.ts.map, .js, .js.map or __pycache__, the
\* whole name included; and the copy treats files and directories alike:
\* an entry with such a name is not created at the destination, nor
\* anything below it, and any other entry is created with what is below.
C24_ExclusionPredicate ==
    pc \in {"excluded", "kept"} =>
        /\ pc = "excluded" <=> EndsInDenylisted(EntryName)
        /\ \A p \in DOMAIN tmpl \ {<<>>} :
              Exists(glob, p) <=> (Exists(tmpl, p) /\ ~EndsInDenylisted(EntryName))

\* C24's case: the source directory holds the directory lib.js with a file
\* in it, and the copy has created neither
C24_Witness ==
    /\ pc = "excluded"
    /\ EntryName = <<"lib", ".js">>
    /\ IsDirectory(tmpl, <<EntryName>>)
    /\ IsFile(tmpl, <<EntryName, StartMd>>)
    /\ IsDirectory(glob, <<>>)
    /\ ~Exists(glob, <<EntryName>>)
    /\ ~Exists(glob, <<EntryName, StartMd>>)

\* a step of a run moves it on: no step is taken twice, none goes back
MovesOn == (Running /\ Rank(pc) < 7) => (pc' # pc /\ Rank(pc') > Rank(pc))

\* C25: termination.  Every step of a run moves it on towards its end, so
\* a run ends after its six steps, and a run that has ended has written
\* hooks.json.
C25_TerminatesWithActivation ==
    /\ [][MovesOn]_vars
    /\ []((Running /\ Rank(pc) = 7) => InProject({HooksJsonPath}) \subseteq writes)

\* what an install leaves of an earlier state s of the two roots: every
\* file and directory of s is still there, and a file of the global tree
\* that has no template file of its path has the content it had
KeptSince(s) ==
    /\ \A p \in Paths :
          /\ IsDirectory(s.glob, p) => IsDirectory(glob, p)
          /\ IsFile(s.glob, p) => IsFile(glob, p)
          /\ (IsFile(s.glob, p) /\ ~IsFile(tmpl, p)) => glob[p] = s.glob[p]
    /\ JsonExists(s.mcpJson) => JsonExists(mcpJson)
    /\ s.projDir = "dir" => projDir = "dir"
    /\ JsonExists(s.hooksJson) => JsonExists(hooksJson)

\* a step of an install run removes nothing
AdditiveStep ==
    (envSteps' = envSteps) =>
        /\ \A p \in Paths :
              /\ IsDirectory(glob, p) => IsDirectory(glob', p)
              /\ IsFile(glob, p) => IsFile(glob', p)
              /\ (IsFile(glob, p) /\ ~IsFile(tmpl, p)) => glob'[p] = glob[p]
        /\ JsonExists(mcpJson) => JsonExists(mcpJson')
        /\ projDir = "dir" => projDir' = "dir"
        /\ JsonExists(hooksJson) => JsonExists(hooksJson')

\* C26: additive only.  No step of an install run deletes a file or a
\* directory: while and after a run, every file and directory that was
\* under the global root or the project directory when the run began is
\* still there, and a destination file with no template file of the same
\* path has the content it had.
C26_AdditiveOnly ==
    /\ [](Running => KeptSince(pre))
    /\ [][AdditiveStep]_vars

\* C26's case: an installed file whose template file has since been
\* removed, kept with its content by a later run that copied the other
\* files of its directory's template
C26_Witness ==
    /\ pc = "done"
    /\ \E p \in TreeFiles :
          /\ IsFile(pre.glob, p)
          /\ ~Exists(tmpl, p)
          /\ Exists(tmpl, Parent(p))
          /\ ReadDir(tmpl, Parent(p)) # {}
          /\ glob[p] = pre.glob[p]

\* the destination directory of the installer that runs at a step
DestOfStep(step) ==
    CASE step = "agents" -> <<Agents>>
      [] step = "hooks" -> <<Hooks>>
      [] step = "commands" -> <<Commands>>
      [] step = "mcpserver" -> McpUnit

\* the paths of the global tree a step changes, and the files it adds to
\* the list of written files
Changed == { p \in Paths : glob'[p] # glob[p] }
NewWrites == writes' \ writes

\* what one step of a run may touch
ScopedStep ==
    /\ pc \in {"agents", "hooks", "commands", "mcpserver"} =>
          /\ \A p \in Changed :
                \/ Under(DestOfStep(pc), p)
                \/ IsPrefix(p, DestOfStep(pc)) /\ ~Exists(glob, p) /\ glob'[p] = "dir"
          /\ \A w \in NewWrites :
                w.root = "global" /\ Under(DestOfStep(pc), w.path)
                                 /\ w.path # DestOfStep(pc)
          /\ UNCHANGED <<mcpJson, projDir, hooksJson>>
    /\ pc = "register" =>
          /\ NewWrites \subseteq InGlobal({McpJsonPath})
          /\ UNCHANGED <<glob, projDir, hooksJson>>
    /\ pc = "activate" =>
          /\ NewWrites \subseteq InProject({HooksJsonPath})
          /\ UNCHANGED <<glob, mcpJson, projDir>>

\* C27: scope of writes.  In a run the only file written inside the
\* project is hooks.json; each of the four installers changes the global
\* tree only below its own destination directory (and creates that
\* directory's missing parents) and touches neither mcp.json nor the
\* project; registerGlobalMcp writes only mcp.json; createProjectHooksJson
\* writes nothing under the global root.
C27_ScopeOfWrites ==
    /\ [](Running =>
            \A w \in writes :
                IF w.root = "project" THEN w.path = HooksJsonPath
                ELSE w.path = McpJsonPath \/ \E u \in Units : Under(u, w.path))
    /\ [][ScopedStep]_vars

\* C27's case: a run that has written below each of the four destination
\* directories, has written mcp.json and has written hooks.json
C27_Witness ==
    /\ pc = "done"
    /\ \A u \in Units : \E w \in writes : w.root = "global" /\ Under(u, w.path)
    /\ InGlobal({McpJsonPath}) \subseteq writes
    /\ { w \in writes : w.root = "project" } = InProject({HooksJsonPath})

----------------------------------------------------------------------------
(* Install runs from a template bundle without the service bundle, on an   *)
(* empty or partly filled global root and every mcp.json of a user         *)
(* (SpecBare).                                                             *)

\* template bundles that lack mcp-servers/trellis-context
BareTemplates ==
    { RemoveAt(FullTemplate, McpUnit), RemoveAt(FullTemplate, <<McpServers>>) }

InitBare ==
    /\ \E h \in InstallHosts : platform = h.platform /\ home = h.home
    /\ tmpl \in BareTemplates
    /\ glob \in FailTrees
    /\ mcpJson \in {NoFile} \cup UserConfigs
    /\ projDir = "-"
    /\ hooksJson = NoFile
    /\ pc = "idle"
    /\ pre = Snapshot
    /\ reads = {}
    /\ writes = {}
    /\ runs = 0
    /\ envSteps = 0
    /\ clean = -1
    /\ call = NoCall
    /\ procs = NoProcs

NextBare ==
    \/ Start
    \/ StepAgents
    \/ StepHooks
    \/ StepCommands
    \/ StepMcpServer
    \/ StepRegister
    \/ StepActivate

SpecBare == InitBare /\ [][NextBare]_vars

\* the document, if there is one, has no "trellis-context" entry
NoTrellisEntry(f) == ~(HasServers(f) /\ TrellisKey \in DOMAIN ServersOf(f))

RegistrationDone == Running /\ Rank(pc) > 5

\* C28: registration is independent of bundle installation.  In a run
\* whose template has no service bundle and whose mcp.json has no
\* "trellis-context" entry, the bundle installer changes nothing, and
\* once the registration step is over mcp.json holds the entry, whose
\* argument names <global>/mcp-servers/trellis-context/server.py, a file
\* the run has not created.
C28_RegistrationIgnoresBundle ==
    (RegistrationDone /\ ~Exists(tmpl, McpUnit) /\ NoTrellisEntry(pre.mcpJson)) =>
        /\ \A p \in Paths : Under(<<McpServers>>, p) => glob[p] = pre.glob[p]
        /\ HasServers(mcpJson)
        /\ TrellisKey \in DOMAIN ServersOf(mcpJson)
        /\ ServersOf(mcpJson)[TrellisKey]
               = ServerEntry(platform, GlobalCursorDir(platform, home))
        /\ ~Exists(pre.glob, McpUnit \o <<ServerPy>>)
               => ~Exists(glob, McpUnit \o <<ServerPy>>)

----------------------------------------------------------------------------
(* Two install runs on one global root, from the same template bundle,     *)
(* step by step (SpecTree).  Each ensureDir, each existsSync and each      *)
(* file write is one step; the steps of the two runs interleave freely.    *)
(* A run is the list of the file operations configureCursor makes for the  *)
(* template, in the order of its directory listings.                       *)

RECURSIVE CopySteps(_, _, _)
RECURSIVE EntrySteps(_, _, _, _)

\* the operations of the iterations of the for loop of copyDirFiltered
\* called with skipExisting
EntrySteps(t, src, dest, entries) ==
    IF entries = {} THEN <<>>
    ELSE LET entry == CHOOSE e \in entries : TRUE
             srcPath == src \o <<entry>>
             destPath == dest \o <<entry>>
             these == IF shouldExclude(entry) THEN <<>>
                      ELSE IF IsDirectory(t, srcPath)
                      THEN CopySteps(t, srcPath, destPath)
                      ELSE << [op |-> "existsSync", src |-> srcPath, path |-> destPath],
                              [op |-> "writeFile", src |-> srcPath, path |-> destPath] >>
         IN these \o EntrySteps(t, src, dest, entries \ {entry})

\* the operations of copyDirFiltered(src, dest, true)
CopySteps(t, src, dest) ==
    << [op |-> "ensureDir", src |-> src, path |-> dest] >>
        \o EntrySteps(t, src, dest, ReadDir(t, src))

\* the operations of a tree installer of the unit u
UnitSteps(t, u) == IF ~Exists(t, u) THEN <<>> ELSE CopySteps(t, u, u)

\* the operations of the for loop of installGlobalMcpServer
RECURSIVE BundleEntrySteps(_, _)
BundleEntrySteps(t, entries) ==
    IF entries = {} THEN <<>>
    ELSE LET entry == CHOOSE e \in entries : TRUE
             srcPath == McpUnit \o <<entry>>
             destPath == McpUnit \o <<entry>>
             these == IF IsFile(t, srcPath)
                      THEN << [op |-> "writeFileSync", src |-> srcPath, path |-> destPath] >>
                      ELSE <<>>
         IN these \o BundleEntrySteps(t, entries \ {entry})

\* the operations of installGlobalMcpServer; the guard ends the run's
\* list when server.py is at the destination
BundleSteps(t) ==
    IF ~Exists(t, McpUnit) THEN <<>>
    ELSE << [op |-> "guard", src |-> McpUnit, path |-> McpUnit \o <<ServerPy>>],
            [op |-> "ensureDir", src |-> McpUnit, path |-> McpUnit] >>
            \o BundleEntrySteps(t, ReadDir(t, McpUnit))

\* the file operations of configureCursor on the global root
Program(t) ==
    << [op |-> "ensureDir", src |-> <<>>, path |-> <<>>] >>
        \o UnitSteps(t, <<Agents>>) \o UnitSteps(t, <<Hooks>>)
        \o UnitSteps(t, <<Commands>>) \o BundleSteps(t)

\* the template bundles of the two runs
TreeTemplates == { FullTemplate, RemoveAt(FullTemplate, <<Hooks>>) }

\* the global root before the two runs: the trees of FailTrees, or a
\* service bundle that is installed already
TreeInits ==
    FailTrees \cup
        { [EnsureDir(EmptyTree, McpUnit) EXCEPT ![McpUnit \o <<ServerPy>>] = "u"] }

InitTree ==
    /\ platform = "posix"
    /\ home = <<"/", "home", "/", "me">>
    /\ tmpl \in TreeTemplates
    /\ glob \in TreeInits
    /\ mcpJson = NoFile
    /\ projDir = "dir"
    /\ hooksJson = NoFile
    /\ pc = "installing"
    /\ pre = Snapshot
    /\ reads = {}
    /\ writes = {}
    /\ runs = 0
    /\ envSteps = 0
    /\ clean = -1
    /\ call = NoCall
    /\ procs = [at |-> [p \in Installs |-> 1],
                over |-> [p \in Installs |-> FALSE]]

TreeUnchanged ==
    UNCHANGED <<platform, home, tmpl, mcpJson, projDir, hooksJson, pc, pre,
                reads, writes, runs, envSteps, clean, call>>

\* the run p has operations left, and the next one
Busy(p) == procs.at[p] <= Len(Program(tmpl))
Op(p) == Program(tmpl)[procs.at[p]]

TreeEnsureDir(p) ==
    /\ Busy(p)
    /\ Op(p).op = "ensureDir"
    /\ glob' = EnsureDir(glob, Op(p).path)
    /\ procs' = [procs EXCEPT !.at[p] = @ + 1]
    /\ TreeUnchanged

\* skipExisting && existsSync(destPath): the copy of the file is passed
\* over when the destination exists
TreeExistsSync(p) ==
    /\ Busy(p)
    /\ Op(p).op = "existsSync"
    /\ procs' = [procs EXCEPT !.at[p] = IF Exists(glob, Op(p).path) THEN @ + 2 ELSE @ + 1]
    /\ UNCHANGED glob
    /\ TreeUnchanged

\* writeFile(destPath, readFileSync(srcPath)); `over` records a write on
\* a file the other run has created since the test
TreeWriteFile(p) ==
    /\ Busy(p)
    /\ Op(p).op = "writeFile"
    /\ glob' = WriteFile(glob, Op(p).path, tmpl[Op(p).src])
    /\ procs' = [procs EXCEPT !.at[p] = @ + 1,
                              !.over[p] = @ \/ Exists(glob, Op(p).path)]
    /\ TreeUnchanged

\* A guard of the service bundle that tests the destination directory.
BundleGuardTestsDirectory(p) ==
    /\ Busy(p)
    /\ Op(p).op = "guard"
    /\ procs' = [procs EXCEPT !.at[p] = IF Exists(glob, McpUnit)
                                        THEN Len(Program(tmpl)) + 1 ELSE @ + 1]
    /\ UNCHANGED glob
    /\ TreeUnchanged

\* if (existsSync(path.join(mcpDest, "server.py"))) return
BundleGuard(p) ==
    /\ Busy(p)
    /\ Op(p).op = "guard"
    /\ procs' = [procs EXCEPT !.at[p] = IF Exists(glob, Op(p).path)
                                        THEN Len(Program(tmpl)) + 1 ELSE @ + 1]
    /\ UNCHANGED glob
    /\ TreeUnchanged

BundleWriteFileSync(p) ==
    /\ Busy(p)
    /\ Op(p).op = "writeFileSync"
    /\ glob' = WriteFileSync(glob, Op(p).path, tmpl[Op(p).src])
    /\ procs' = [procs EXCEPT !.at[p] = @ + 1,
                              !.over[p] = @ \/ Exists(glob, Op(p).path)]
    /\ TreeUnchanged

NextTree ==
    \/ \E p \in Installs : TreeEnsureDir(p)
    \/ \E p \in Installs : TreeExistsSync(p)
    \/ \E p \in Installs : TreeWriteFile(p)
    \/ \E p \in Installs : BundleGuard(p)
    \/ \E p \in Installs : BundleWriteFileSync(p)

SpecTree == InitTree /\ [][NextTree]_vars

AllFinished == \A p \in Installs : ~Busy(p)

\* C29: concurrent tree installs converge.  When two runs from the same
\* template bundle on the same global root have both ended, whatever the
\* interleaving of their tests and writes, the global tree is the one a
\* single run leaves from the tree before the two runs.
C29_ConcurrentTreeInstallsConverge ==
    AllFinished => glob = FullRun(pre).glob

\* C29's case: both runs have ended, each has written a file that the
\* other had created since it tested for it, and the root held a user's
\* file before
C29_Witness ==
    /\ AllFinished
    /\ \A p \in Installs : procs.over[p]
    /\ \E q \in FilePaths : pre.glob[q] = "u"

====
